---- MODULE Spec2Model ----
(***************************************************************************)
(* A model of the photo organizer of src/main.rs: the sidecar index build  *)
(* (parse_metadata_files), the timestamp fallback chain                    *)
(* (process_directory_parallel, process_photo_file,                        *)
(* process_photo_file_with_creation_time) and the placement engine         *)
(* (organize_and_update_file, get_output_path, find_unique_filename) with  *)
(* its process-wide reservation set MUTEX.                                 *)
(*                                                                         *)
(* Strings are sequences of one-character strings, so that file_stem,      *)
(* extension, to_lowercase, format! and the parsers are computed and not   *)
(* assumed.  Instants are Unix epoch seconds.                              *)
(***************************************************************************)
EXTENDS Integers, Sequences, FiniteSets, TLC

(***************************************************************************)
(* Bounds of the model.                                                    *)
(***************************************************************************)
\* Number of candidate files the walk of process_directory_parallel yields.
NumFiles == 2
\* Number of sidecar (.json) files the walk of parse_metadata_files yields.
NumSidecars == 2
\* Number of candidate files of one base name, where the walk yields only
\* such files.
NumSameName == 3

\* Rust's Option<T>: None is the empty tuple, Some(x) the one-element tuple.
None == <<>>

Some(x) == <<x>>

Get(o) == o[1]

(***************************************************************************)
(* Strings.                                                                *)
(***************************************************************************)
Digits == <<"0", "1", "2", "3", "4", "5", "6", "7", "8", "9">>

IsDigit(c) == \E i \in 1..10 : Digits[i] = c

DigitVal(c) == (CHOOSE i \in 1..10 : Digits[i] = c) - 1

\* i64/u32 Display as used by format!("{}", counter) and year.to_string().
RECURSIVE ToDecimal(_)
ToDecimal(n) ==
    IF n < 10 THEN <<Digits[n + 1]>>
    ELSE ToDecimal(n \div 10) \o <<Digits[(n % 10) + 1]>>

RECURSIVE DigitsValue(_)
DigitsValue(s) ==
    IF s = <<>> THEN 0
    ELSE 10 * DigitsValue(SubSeq(s, 1, Len(s) - 1)) + DigitVal(s[Len(s)])

\* str::parse::<i64>: an optional sign followed by at least one digit and
\* nothing else; None for anything else.
ParseI64(s) ==
    LET signed == Len(s) >= 1 /\ s[1] \in {"-", "+"}
        body   == IF signed THEN SubSeq(s, 2, Len(s)) ELSE s
    IN  IF body = <<>> \/ \E i \in 1..Len(body) : ~IsDigit(body[i]) THEN None
        ELSE IF signed /\ s[1] = "-" THEN Some(0 - DigitsValue(body))
        ELSE Some(DigitsValue(body))

LowerChar(c) ==
    CASE c = "A" -> "a" [] c = "B" -> "b" [] c = "G" -> "g" [] c = "J" -> "j"
      [] c = "P" -> "p" [] OTHER -> c

\* str::to_lowercase
ToLowercase(s) == [i \in 1..Len(s) |-> LowerChar(s[i])]

\* Position of the last "." of s, 0 when there is none.
LastDot(s) ==
    IF \E i \in 1..Len(s) : s[i] = "."
    THEN CHOOSE i \in 1..Len(s) :
            s[i] = "." /\ \A j \in (i + 1)..Len(s) : s[j] # "."
    ELSE 0

\* Path::file_stem of a file name: the part before the last dot; the whole
\* name when it has no dot, when its only dot is the first character, or when
\* it is "..".
FileStem(name) ==
    LET d == LastDot(name)
    IN  IF name = <<".", ".">> \/ d <= 1 THEN name ELSE SubSeq(name, 1, d - 1)

\* Path::extension of a file name: the part after the last dot, None in the
\* cases where file_stem is the whole name.  "A." has the empty extension.
Extension(name) ==
    LET d == LastDot(name)
    IN  IF name = <<".", ".">> \/ d <= 1 THEN None
        ELSE Some(SubSeq(name, d + 1, Len(name)))

(***************************************************************************)
(* Calendar: chrono's DateTime<Utc> as epoch seconds.                      *)
(***************************************************************************)
SecondsPerDay == 86400

IsLeap(y) == (y % 4 = 0 /\ y % 100 # 0) \/ y % 400 = 0

DaysInMonth(y, m) ==
    CASE m \in {1, 3, 5, 7, 8, 10, 12} -> 31
      [] m \in {4, 6, 9, 11} -> 30
      [] OTHER -> IF IsLeap(y) THEN 29 ELSE 28

\* Days from 1970-01-01 to the civil date y-m-d (proleptic Gregorian).
DaysFromCivil(y, m, d) ==
    LET yy  == IF m <= 2 THEN y - 1 ELSE y
        era == yy \div 400
        yoe == yy - era * 400
        mp  == IF m > 2 THEN m - 3 ELSE m + 9
        doy == (153 * mp + 2) \div 5 + d - 1
        doe == yoe * 365 + yoe \div 4 - yoe \div 100 + doy
    IN  era * 146097 + doe - 719468

\* The civil date <<year, month, day>> of a day number since 1970-01-01.
CivilFromDays(z0) ==
    LET z   == z0 + 719468
        era == z \div 146097
        doe == z - era * 146097
        yoe == (doe - doe \div 1460 + doe \div 36524 - doe \div 146096) \div 365
        doy == doe - (365 * yoe + yoe \div 4 - yoe \div 100)
        mp  == (5 * doy + 2) \div 153
        d   == doy - (153 * mp + 2) \div 5 + 1
        m   == IF mp < 10 THEN mp + 3 ELSE mp - 9
        y   == yoe + era * 400 + (IF m <= 2 THEN 1 ELSE 0)
    IN  <<y, m, d>>

\* Datelike::year and Datelike::month of a DateTime<Utc>.
YearOf(t) == CivilFromDays(t \div SecondsPerDay)[1]

MonthOf(t) == CivilFromDays(t \div SecondsPerDay)[2]

\* NaiveDateTime::parse_from_str(s, "%Y-%m-%d %H:%M:%S") followed by
\* Utc.from_local_datetime: the fields read as UTC, None when the string does
\* not have that shape or names no calendar instant.
ParseDateTime(s) ==
    IF Len(s) # 19 THEN None
    ELSE IF \/ s[5] # "-" \/ s[8] # "-" \/ s[11] # " "
            \/ s[14] # ":" \/ s[17] # ":"
            \/ \E i \in {1, 2, 3, 4, 6, 7, 9, 10, 12, 13, 15, 16, 18, 19} :
                  ~IsDigit(s[i])
    THEN None
    ELSE LET y  == DigitsValue(SubSeq(s, 1, 4))
             mo == DigitsValue(SubSeq(s, 6, 7))
             d  == DigitsValue(SubSeq(s, 9, 10))
             h  == DigitsValue(SubSeq(s, 12, 13))
             mi == DigitsValue(SubSeq(s, 15, 16))
             se == DigitsValue(SubSeq(s, 18, 19))
         IN  IF \/ mo < 1 \/ mo > 12 \/ d < 1 \/ h > 23 \/ mi > 59 \/ se > 60
                \/ d > DaysInMonth(y, mo)
             THEN None
             ELSE Some(DaysFromCivil(y, mo, d) * SecondsPerDay
                         + h * 3600 + mi * 60 + (IF se = 60 THEN 59 ELSE se))

(***************************************************************************)
(* Paths.  A path below the output root is the sequence of its components. *)
(***************************************************************************)
\* Path::join of a relative component: joining the empty string adds no
\* component (it only adds a trailing separator).
Join(path, component) ==
    IF component = <<>> THEN path ELSE Append(path, component)

MonthNames ==
    << <<"J", "a", "n", "u", "a", "r", "y">>,
       <<"F", "e", "b", "r", "u", "a", "r", "y">>,
       <<"M", "a", "r", "c", "h">>,
       <<"A", "p", "r", "i", "l">>,
       <<"M", "a", "y">>,
       <<"J", "u", "n", "e">>,
       <<"J", "u", "l", "y">>,
       <<"A", "u", "g", "u", "s", "t">>,
       <<"S", "e", "p", "t", "e", "m", "b", "e", "r">>,
       <<"O", "c", "t", "o", "b", "e", "r">>,
       <<"N", "o", "v", "e", "m", "b", "e", "r">>,
       <<"D", "e", "c", "e", "m", "b", "e", "r">> >>

\* The match of organize_and_update_file on the month number.
MonthName(m) ==
    IF m \in 1..12 THEN MonthNames[m]
    ELSE <<"U", "n", "k", "n", "o", "w", "n">>

NoExt == <<"n", "o", "_", "e", "x", "t">>

\* year_dir and month_dir of organize_and_update_file.
YearDir(t) == Join(<<>>, ToDecimal(YearOf(t)))

MonthDir(t) == Join(YearDir(t), MonthName(MonthOf(t)))

\* target_dir of organize_and_update_file: the month directory joined with
\* the lower-cased extension, or with no_ext when the name has none.
TargetDir(name, t) ==
    IF Extension(name) # None
    THEN Join(MonthDir(t), ToLowercase(Get(Extension(name))))
    ELSE Join(MonthDir(t), NoExt)

\* new_file_name as it would be with the counter taken one too high.
NewFileNameOffByOne(name, counter) ==
    LET file_stem == FileStem(name)
        extension == IF Extension(name) = None THEN <<>>
                     ELSE Get(Extension(name))
    IN  IF extension = <<>>
        THEN file_stem \o <<"_">> \o ToDecimal(counter + 1)
        ELSE file_stem \o <<"_">> \o ToDecimal(counter + 1)
                \o <<".">> \o extension

\* new_file_name of find_unique_filename for one value of the counter.
NewFileName(name, counter) ==
    LET file_stem == FileStem(name)
        extension == IF Extension(name) = None THEN <<>>
                     ELSE Get(Extension(name))
    IN  IF extension = <<>>
        THEN file_stem \o <<"_">> \o ToDecimal(counter)
        ELSE file_stem \o <<"_">> \o ToDecimal(counter) \o <<".">> \o extension

(***************************************************************************)
(* The inputs the two directory walks can yield.                           *)
(***************************************************************************)
A_jpg == <<"A", ".", "j", "p", "g">>

A_1_jpg == <<"A", "_", "1", ".", "j", "p", "g">>

A_JPG == <<"A", ".", "J", "P", "G">>

A_bare == <<"A">>

B_jpg == <<"B", ".", "j", "p", "g">>

\* "A.": a name that ends in a dot.
A_dot == <<"A", ".">>

\* "1657886400": 2022-07-15 12:00:00 UTC.
Stamp2022 == <<"1", "6", "5", "7", "8", "8", "6", "4", "0", "0">>

\* "1500000000": 2017-07-14 02:40:00 UTC.
Stamp2017 == <<"1", "5", "0", "0", "0", "0", "0", "0", "0", "0">>

NotANumber == <<"n", "o", "t", "-", "a", "-", "n", "u", "m", "b", "e", "r">>

\* A sidecar file: whether File::open and read_to_string succeed, whether
\* its text is JSON, and its "title" and "photoTakenTime"."timestamp"
\* strings (None: absent or not a string).
SidecarFile(open, read, json, title, timestamp) ==
    [open |-> open, read |-> read, json |-> json,
     title |-> title, timestamp |-> timestamp]

\* The sidecar files an input tree may hold: one for each way the closure
\* of parse_metadata_files gives up, and three well-formed ones.
Sidecars ==
    << SidecarFile(FALSE, TRUE, TRUE, Some(A_jpg), Some(Stamp2022)),
       SidecarFile(TRUE, FALSE, TRUE, Some(A_jpg), Some(Stamp2022)),
       SidecarFile(TRUE, TRUE, FALSE, Some(A_jpg), Some(Stamp2022)),
       SidecarFile(TRUE, TRUE, TRUE, None, Some(Stamp2022)),
       SidecarFile(TRUE, TRUE, TRUE, Some(A_jpg), None),
       SidecarFile(TRUE, TRUE, TRUE, Some(A_jpg), Some(NotANumber)),
       SidecarFile(TRUE, TRUE, TRUE, Some(A_jpg), Some(Stamp2022)),
       SidecarFile(TRUE, TRUE, TRUE, Some(A_jpg), Some(Stamp2017)),
       SidecarFile(TRUE, TRUE, TRUE, Some(B_jpg), Some(Stamp2022)) >>

WellFormed(title, timestamp) ==
    SidecarFile(TRUE, TRUE, TRUE, Some(title), Some(timestamp))

\* "2022-07-20 10:00:00", a DateTimeOriginal as display_value shows it.
ExifGood ==
    <<"2", "0", "2", "2", "-", "0", "7", "-", "2", "0", " ",
      "1", "0", ":", "0", "0", ":", "0", "0">>

\* "0000-00-00 00:00:00", the tag of a camera whose clock was never set.
ExifBad ==
    <<"0", "0", "0", "0", "-", "0", "0", "-", "0", "0", " ",
      "0", "0", ":", "0", "0", ":", "0", "0">>

\* 2022-07-25 12:00:00 UTC
CreatedTime == DaysFromCivil(2022, 7, 25) * SecondsPerDay + 12 * 3600

\* 2021-12-31 23:59:59 UTC
ModifiedTime == DaysFromCivil(2022, 1, 1) * SecondsPerDay - 1

\* A candidate file: its base name, whether File::open succeeds, whether it
\* holds an EXIF container, the display value of its DateTimeOriginal field
\* (None: no such field), whether fs::metadata succeeds, and the creation
\* and modification times the filesystem reports (None: an error).
PhotoFile(name, open, container, field, meta, created, modified) ==
    [name |-> name, open |-> open, container |-> container, field |-> field,
     meta |-> meta, created |-> created, modified |-> modified]

\* The three ways a file has no usable tag: no EXIF container, no
\* DateTimeOriginal field, a field that does not parse.
ExifStates ==
    << <<FALSE, None>>, <<TRUE, None>>, <<TRUE, Some(ExifBad)>> >>

\* What the filesystem answers: both times, or no creation time.
FsStates ==
    << <<Some(CreatedTime), Some(ModifiedTime)>>,
       <<None, Some(ModifiedTime)>> >>

\* A sidecar file is a file of the input tree too.
A_jpg_json == A_jpg \o <<".", "j", "s", "o", "n">>

\* A file with a good tag.
Tagged(name) ==
    PhotoFile(name, TRUE, TRUE, Some(ExifGood), TRUE,
              Some(CreatedTime), Some(ModifiedTime))

\* A file without EXIF container whose filesystem times are both known.
Untagged(name) ==
    PhotoFile(name, TRUE, FALSE, None, TRUE,
              Some(CreatedTime), Some(ModifiedTime))

\* The files an input tree may hold.  Those named A.jpg cover the tag and
\* filesystem answers; the others are well-behaved files whose names collide
\* with A.jpg and its suffixed names in several ways.
Files ==
    << Untagged(A_jpg_json),
       PhotoFile(A_jpg, FALSE, TRUE, Some(ExifGood), TRUE,
                 Some(CreatedTime), Some(ModifiedTime)),
       Tagged(A_jpg),
       PhotoFile(A_jpg, TRUE, FALSE, None, FALSE, None, None),
       PhotoFile(A_jpg, TRUE, FALSE, None, TRUE, None, None) >>
    \o [i \in 1..6 |->
          LET e == ExifStates[((i - 1) \div 2) + 1]
              f == FsStates[((i - 1) % 2) + 1]
          IN  PhotoFile(A_jpg, TRUE, e[1], e[2], TRUE, f[1], f[2])]
    \o << Tagged(A_1_jpg), Tagged(A_JPG), Untagged(A_bare), Tagged(A_dot) >>

\* The files that may already stand in the output tree.
PreExisting ==
    { <<ToDecimal(2022), MonthName(7), <<"j", "p", "g">>, A_jpg>>,
      <<ToDecimal(2022), MonthName(7), <<"j", "p", "g">>, A_1_jpg>> }

\* The input trees of the three specifications, as indices into Sidecars and
\* Files.  Resolve: every tag and filesystem answer of a file A.jpg, with
\* and without an index entry for it.
ResolveSidecars ==
    {i \in DOMAIN Sidecars :
        Sidecars[i] \in {WellFormed(A_jpg, Stamp2017),
                         WellFormed(B_jpg, Stamp2022)}}

ResolveFiles ==
    {i \in DOMAIN Files : Files[i].name \in {A_jpg, A_jpg_json}}

\* Place: colliding names, A.jpg dated 2017-07 by a sidecar or not at all.
PlaceSidecars ==
    {i \in DOMAIN Sidecars :
        Sidecars[i] \in {WellFormed(A_jpg, NotANumber),
                         WellFormed(A_jpg, Stamp2017)}}

PlaceFiles ==
    {i \in DOMAIN Files :
        Files[i] \in {Untagged(A_jpg_json), Tagged(A_jpg), Tagged(A_1_jpg),
                      Tagged(A_JPG), Untagged(A_bare)}}

\* Errors: a file that cannot be opened, one whose filesystem metadata cannot
\* be read, and a well-behaved one, each with or without an index entry.
ErrorFiles ==
    {i \in DOMAIN Files :
        Files[i] \in {PhotoFile(A_jpg, FALSE, TRUE, Some(ExifGood), TRUE,
                                Some(CreatedTime), Some(ModifiedTime)),
                      PhotoFile(A_jpg, TRUE, FALSE, None, FALSE, None, None),
                      Tagged(A_jpg)}}

\* Bucket: names with an extension in either letter case, without extension
\* and ending in a dot; dates of July 2022, December 2021 and, through the
\* sidecar of A.jpg, July 2017.
BucketFiles ==
    {i \in DOMAIN Files :
        Files[i] \in {Tagged(A_jpg), Tagged(A_JPG), Untagged(A_bare),
                      Tagged(A_dot),
                      PhotoFile(A_jpg, TRUE, FALSE, None, TRUE,
                                None, Some(ModifiedTime))}}

\* Search: files that collide with what the output tree holds.
SearchSidecars ==
    {i \in DOMAIN Sidecars : Sidecars[i] = WellFormed(B_jpg, Stamp2022)}

SearchFiles ==
    {i \in DOMAIN Files : Files[i] \in {Tagged(A_jpg), Untagged(A_bare)}}

\* Same name: files named A.jpg that all belong in 2022/July/jpg, by their
\* tag or by their creation time.
SameNameFiles ==
    {i \in DOMAIN Files :
        Files[i] \in {Tagged(A_jpg),
                      PhotoFile(A_jpg, TRUE, TRUE, Some(ExifBad), TRUE,
                                Some(CreatedTime), Some(ModifiedTime))}}

\* Build: every sidecar shape.
BuildSidecars == DOMAIN Sidecars

BuildFiles ==
    {i \in DOMAIN Files :
        Files[i] \in {Untagged(A_jpg_json),
                      PhotoFile(A_jpg, TRUE, TRUE, None, TRUE,
                                Some(CreatedTime), Some(ModifiedTime))}}

(***************************************************************************)
(* State.                                                                  *)
(***************************************************************************)
VARIABLES
    inputExists,    \* Path::new(input_directory).exists()
    outputExists,   \* Path::new(output_directory).exists()
    mainPc,         \* where main is: start, build, place, done, exit1
    sidecar,        \* the .json files the first walk yielded (in Sidecars)
    scPc,           \* per sidecar task: idle, lock, insert, done
    scLocal,        \* per sidecar task: its (photo_filename, parsed_time)
    mapLock,        \* holder of the lock of the index under construction
    metadata_map,   \* the MetadataIndex: file name -> instant
    file,           \* the candidate files the second walk yielded (in Files)
    pc,             \* per placement task: idle, exif, fstime, organize,
                    \*   lock, check, find, insert, copy, settimes, ok, err
    parsed_time,    \* per task: the resolved instant, once there is one
    source,         \* per task: the tier that gave parsed_time
    target_dir,     \* per task: target_dir of organize_and_update_file
    output_path,    \* per task: output_path of get_output_path
    counter,        \* per task: counter of find_unique_filename
    mutexOwner,     \* holder of MUTEX, 0 when it is free
    reserved,       \* the set behind MUTEX: the reserved paths
    dirs,           \* directories created below the output root
    disk,           \* files below the output root: path -> its state
    errAt           \* per task: the step that returned Err, if any

vars ==
    <<inputExists, outputExists, mainPc, sidecar, scPc, scLocal, mapLock,
      metadata_map, file, pc, parsed_time, source, target_dir, output_path,
      counter, mutexOwner, reserved, dirs, disk, errAt>>

mainVars == <<inputExists, outputExists, mainPc>>

buildVars == <<sidecar, scPc, scLocal, mapLock, metadata_map>>

taskVars ==
    <<file, pc, parsed_time, source, target_dir, output_path, counter, errAt>>

placeVars == <<mutexOwner, reserved, dirs, disk>>

\* A file of the output tree: the task whose copy wrote it (0: it was there
\* before the run), how many copies were written to it, and the modification
\* time set_file_times gave it.
DiskFile(writer, writes, mtime) ==
    [writer |-> writer, writes |-> writes, mtime |-> mtime]

\* Path::exists as it would be if only directories were seen.
ExistsDirOnly(path) == path \in dirs

\* Path::exists
Exists(path) == path \in DOMAIN disk \/ path \in dirs

\* The state main starts in: nothing walked, an empty reservation set, and
\* an output tree holding some files of an earlier run.
InitWith(existing) ==
    /\ inputExists \in BOOLEAN
    /\ outputExists \in BOOLEAN
    /\ mainPc = "start"
    /\ sidecar = <<>>
    /\ scPc = <<>>
    /\ scLocal = <<>>
    /\ mapLock = 0
    /\ metadata_map = <<>>
    /\ file = <<>>
    /\ pc = <<>>
    /\ parsed_time = <<>>
    /\ source = <<>>
    /\ target_dir = <<>>
    /\ output_path = <<>>
    /\ counter = <<>>
    /\ errAt = <<>>
    /\ mutexOwner = 0
    /\ reserved = {}
    /\ dirs = {}
    /\ \E pre \in existing :
          disk = [p \in pre |-> DiskFile(0, 0, None)]

(***************************************************************************)
(* main and the index build.                                               *)
(***************************************************************************)
\* main up to the call of parse_metadata_files, and the walk of that
\* function: n .json files, each one of kinds.
Startup(kinds, n) ==
    /\ mainPc = "start"
    /\ IF inputExists /\ outputExists
       THEN /\ mainPc' = "build"
            /\ \E walk \in [1..n -> kinds] :
                  /\ \A i \in 1..(n - 1) : walk[i] <= walk[i + 1]
                  /\ sidecar' = walk
            /\ scPc' = [i \in 1..n |-> "idle"]
            /\ scLocal' = [i \in 1..n |-> None]
       ELSE /\ mainPc' = "exit1"
            /\ UNCHANGED <<sidecar, scPc, scLocal>>
    /\ UNCHANGED <<inputExists, outputExists, mapLock, metadata_map>>
    /\ UNCHANGED <<taskVars, placeVars>>

\* ParseSidecar as it would be if a timestamp that is no integer were read
\* as 0 instead of being skipped.
ParseSidecarLenient(sc) ==
    IF ~sc.open THEN None
    ELSE IF ~sc.read THEN None
    ELSE IF ~sc.json THEN None
    ELSE IF sc.title = None THEN None
    ELSE IF sc.timestamp = None THEN None
    ELSE IF ParseI64(Get(sc.timestamp)) = None THEN Some(<<Get(sc.title), 0>>)
    ELSE Some(<<Get(sc.title), Get(ParseI64(Get(sc.timestamp)))>>)

\* The nested if-lets of the closure of parse_metadata_files: the pair to
\* insert, None when any of them fails.
ParseSidecar(sc) ==
    IF ~sc.open THEN None
    ELSE IF ~sc.read THEN None
    ELSE IF ~sc.json THEN None
    ELSE IF sc.title = None THEN None
    ELSE IF sc.timestamp = None THEN None
    ELSE IF ParseI64(Get(sc.timestamp)) = None THEN None
    ELSE Some(<<Get(sc.title), Get(ParseI64(Get(sc.timestamp)))>>)

\* One sidecar task up to the lock: reading and parsing, outside the lock.
SidecarParse(s) ==
    /\ scPc[s] = "idle"
    /\ scLocal' = [scLocal EXCEPT ![s] = ParseSidecar(Sidecars[sidecar[s]])]
    /\ scPc' = [scPc EXCEPT
                  ![s] = IF ParseSidecar(Sidecars[sidecar[s]]) = None
                         THEN "done" ELSE "lock"]
    /\ UNCHANGED <<sidecar, mapLock, metadata_map>>
    /\ UNCHANGED <<mainVars, taskVars, placeVars>>

\* metadata_map.lock().unwrap()
SidecarLock(s) ==
    /\ scPc[s] = "lock"
    /\ mapLock = 0
    /\ mapLock' = s
    /\ scPc' = [scPc EXCEPT ![s] = "insert"]
    /\ UNCHANGED <<sidecar, scLocal, metadata_map>>
    /\ UNCHANGED <<mainVars, taskVars, placeVars>>

\* HashMap::insert as it would be if it kept the value of a key it holds.
MapInsertKeepingFirst(map, key, value) ==
    [k \in DOMAIN map \cup {key} |->
        IF k \in DOMAIN map THEN map[k] ELSE value]

\* HashMap::insert
MapInsert(map, key, value) ==
    [k \in DOMAIN map \cup {key} |-> IF k = key THEN value ELSE map[k]]

\* metadata_map.insert(...), and the guard dropped at the end of the block.
SidecarInsert(s) ==
    /\ scPc[s] = "insert"
    /\ metadata_map' =
          MapInsert(metadata_map, Get(scLocal[s])[1], Get(scLocal[s])[2])
    /\ mapLock' = 0
    /\ scPc' = [scPc EXCEPT ![s] = "done"]
    /\ UNCHANGED <<sidecar, scLocal>>
    /\ UNCHANGED <<mainVars, taskVars, placeVars>>

\* The extension filters of process_directory_parallel.
IsCandidate(name) ==
    /\ Extension(name) # Some(<<"j", "s", "o", "n">>)
    /\ Extension(name) # Some(<<"z", "i", "p">>)
    /\ Extension(name) # Some(<<"h", "t", "m", "l">>)

\* BuildDone as it would be if main did not wait for the sidecar tasks.
BuildDoneWithoutBarrier(files, n) ==
    /\ mainPc = "build"
    /\ mainPc' = "place"
    /\ \E walk \in [1..n -> {i \in files : IsCandidate(Files[i].name)}] :
          /\ \A i \in 1..(n - 1) : walk[i] <= walk[i + 1]
          /\ file' = walk
    /\ pc' = [f \in 1..n |-> "idle"]
    /\ parsed_time' = [f \in 1..n |-> None]
    /\ source' = [f \in 1..n |-> "none"]
    /\ target_dir' = [f \in 1..n |-> None]
    /\ output_path' = [f \in 1..n |-> None]
    /\ counter' = [f \in 1..n |-> 0]
    /\ errAt' = [f \in 1..n |-> "none"]
    /\ UNCHANGED <<inputExists, outputExists, buildVars, placeVars>>

\* for_each of parse_metadata_files returns once every sidecar task has;
\* main then calls process_directory_parallel, whose walk yields n candidate
\* files, each one of files.
BuildDone(files, n) ==
    /\ mainPc = "build"
    /\ \A s \in DOMAIN scPc : scPc[s] = "done"
    /\ mainPc' = "place"
    /\ \E walk \in [1..n -> {i \in files : IsCandidate(Files[i].name)}] :
          /\ \A i \in 1..(n - 1) : walk[i] <= walk[i + 1]
          /\ file' = walk
    /\ pc' = [f \in 1..n |-> "idle"]
    /\ parsed_time' = [f \in 1..n |-> None]
    /\ source' = [f \in 1..n |-> "none"]
    /\ target_dir' = [f \in 1..n |-> None]
    /\ output_path' = [f \in 1..n |-> None]
    /\ counter' = [f \in 1..n |-> 0]
    /\ errAt' = [f \in 1..n |-> "none"]
    /\ UNCHANGED <<inputExists, outputExists, buildVars, placeVars>>

(***************************************************************************)
(* The timestamp fallback chain.                                           *)
(***************************************************************************)
\* The file task f works on.
File(f) == Files[file[f]]

\* The closure as it would be if the index were not looked at.
DispatchWithoutIndex(f) ==
    /\ pc[f] = "idle"
    /\ pc' = [pc EXCEPT ![f] = "exif"]
    /\ UNCHANGED <<file, parsed_time, source, target_dir, output_path,
                   counter, errAt>>
    /\ UNCHANGED <<mainVars, buildVars, placeVars>>

\* The closure of process_directory_parallel: the index lookup by base name.
\* A hit goes straight to organize_and_update_file with the index value.
Dispatch(f) ==
    /\ pc[f] = "idle"
    /\ IF File(f).name \in DOMAIN metadata_map
       THEN /\ parsed_time' =
                  [parsed_time EXCEPT ![f] = Some(metadata_map[File(f).name])]
            /\ source' = [source EXCEPT ![f] = "sidecar"]
            /\ pc' = [pc EXCEPT ![f] = "organize"]
       ELSE /\ pc' = [pc EXCEPT ![f] = "exif"]
            /\ UNCHANGED <<parsed_time, source>>
    /\ UNCHANGED <<file, target_dir, output_path, counter, errAt>>
    /\ UNCHANGED <<mainVars, buildVars, placeVars>>

\* process_photo_file as it would be if the tag were never used.
ReadExifIgnoringTag(f) ==
    /\ pc[f] = "exif"
    /\ IF ~File(f).open
       THEN /\ pc' = [pc EXCEPT ![f] = "err"]
            /\ errAt' = [errAt EXCEPT ![f] = "open"]
       ELSE /\ pc' = [pc EXCEPT ![f] = "fstime"]
            /\ UNCHANGED errAt
    /\ UNCHANGED <<file, parsed_time, source, target_dir, output_path, counter>>
    /\ UNCHANGED <<mainVars, buildVars, placeVars>>

\* process_photo_file as it would be if a tag that does not parse were
\* returned as an error.
ReadExifStrict(f) ==
    /\ pc[f] = "exif"
    /\ IF ~File(f).open
       THEN /\ pc' = [pc EXCEPT ![f] = "err"]
            /\ errAt' = [errAt EXCEPT ![f] = "open"]
            /\ UNCHANGED <<parsed_time, source>>
       ELSE IF /\ File(f).container
               /\ File(f).field # None
               /\ ParseDateTime(Get(File(f).field)) # None
       THEN /\ parsed_time' =
                  [parsed_time EXCEPT
                     ![f] = ParseDateTime(Get(File(f).field))]
            /\ source' = [source EXCEPT ![f] = "exif"]
            /\ pc' = [pc EXCEPT ![f] = "organize"]
            /\ UNCHANGED errAt
       ELSE IF File(f).container /\ File(f).field # None
       THEN /\ pc' = [pc EXCEPT ![f] = "err"]
            /\ errAt' = [errAt EXCEPT ![f] = "exif"]
            /\ UNCHANGED <<parsed_time, source>>
       ELSE /\ pc' = [pc EXCEPT ![f] = "fstime"]
            /\ UNCHANGED <<parsed_time, source, errAt>>
    /\ UNCHANGED <<file, target_dir, output_path, counter>>
    /\ UNCHANGED <<mainVars, buildVars, placeVars>>

\* process_photo_file up to the call it ends with: File::open, the EXIF
\* container, the DateTimeOriginal field and its parse.
ReadExif(f) ==
    /\ pc[f] = "exif"
    /\ IF ~File(f).open
       THEN /\ pc' = [pc EXCEPT ![f] = "err"]
            /\ errAt' = [errAt EXCEPT ![f] = "open"]
            /\ UNCHANGED <<parsed_time, source>>
       ELSE IF /\ File(f).container
               /\ File(f).field # None
               /\ ParseDateTime(Get(File(f).field)) # None
       THEN /\ parsed_time' =
                  [parsed_time EXCEPT
                     ![f] = ParseDateTime(Get(File(f).field))]
            /\ source' = [source EXCEPT ![f] = "exif"]
            /\ pc' = [pc EXCEPT ![f] = "organize"]
            /\ UNCHANGED errAt
       ELSE /\ pc' = [pc EXCEPT ![f] = "fstime"]
            /\ UNCHANGED <<parsed_time, source, errAt>>
    /\ UNCHANGED <<file, target_dir, output_path, counter>>
    /\ UNCHANGED <<mainVars, buildVars, placeVars>>

\* process_photo_file_with_creation_time as it would be with the two times
\* tried in the other order.
ReadFsTimeModifiedFirst(f) ==
    /\ pc[f] = "fstime"
    /\ IF ~File(f).meta \/ (File(f).created = None /\ File(f).modified = None)
       THEN /\ pc' = [pc EXCEPT ![f] = "err"]
            /\ errAt' = [errAt EXCEPT ![f] = "metadata"]
            /\ UNCHANGED <<parsed_time, source>>
       ELSE /\ parsed_time' =
                  [parsed_time EXCEPT
                     ![f] = IF File(f).modified # None
                            THEN File(f).modified ELSE File(f).created]
            /\ source' =
                  [source EXCEPT
                     ![f] = IF File(f).modified # None
                            THEN "modified" ELSE "created"]
            /\ pc' = [pc EXCEPT ![f] = "organize"]
            /\ UNCHANGED errAt
    /\ UNCHANGED <<file, target_dir, output_path, counter>>
    /\ UNCHANGED <<mainVars, buildVars, placeVars>>

\* process_photo_file_with_creation_time up to the call it ends with:
\* fs::metadata, then created() or else modified().
ReadFsTime(f) ==
    /\ pc[f] = "fstime"
    /\ IF ~File(f).meta \/ (File(f).created = None /\ File(f).modified = None)
       THEN /\ pc' = [pc EXCEPT ![f] = "err"]
            /\ errAt' = [errAt EXCEPT ![f] = "metadata"]
            /\ UNCHANGED <<parsed_time, source>>
       ELSE /\ parsed_time' =
                  [parsed_time EXCEPT
                     ![f] = IF File(f).created # None
                            THEN File(f).created ELSE File(f).modified]
            /\ source' =
                  [source EXCEPT
                     ![f] = IF File(f).created # None
                            THEN "created" ELSE "modified"]
            /\ pc' = [pc EXCEPT ![f] = "organize"]
            /\ UNCHANGED errAt
    /\ UNCHANGED <<file, target_dir, output_path, counter>>
    /\ UNCHANGED <<mainVars, buildVars, placeVars>>

(***************************************************************************)
(* The placement engine.                                                   *)
(***************************************************************************)
\* Organize as it would be if a failed create_dir_all sent a file dated by
\* its sidecar or tag on to the filesystem tier.
OrganizeFallingBack(f) ==
    /\ pc[f] = "organize"
    /\ LET t == Get(parsed_time[f])
           month_dir == MonthDir(t)
           dir == TargetDir(File(f).name, t)
       IN  \/ /\ pc' = [pc EXCEPT
                           ![f] = IF source[f] \in {"sidecar", "exif"}
                                  THEN "fstime" ELSE "err"]
              /\ errAt' = [errAt EXCEPT
                              ![f] = IF source[f] \in {"sidecar", "exif"}
                                     THEN "none" ELSE "mkdir"]
              /\ \E made \in {{}, {YearDir(t)}, {YearDir(t), month_dir}} :
                    dirs' = dirs \cup made
              /\ UNCHANGED target_dir
           \/ /\ pc' = [pc EXCEPT ![f] = "lock"]
              /\ dirs' = dirs \cup {YearDir(t), month_dir, dir}
              /\ target_dir' = [target_dir EXCEPT ![f] = Some(dir)]
              /\ UNCHANGED errAt
    /\ UNCHANGED <<file, parsed_time, source, output_path, counter>>
    /\ UNCHANGED <<mainVars, buildVars, mutexOwner, reserved, disk>>

\* organize_and_update_file up to the call of get_output_path: the two
\* create_dir_all, either of which may fail.
Organize(f) ==
    /\ pc[f] = "organize"
    /\ LET t == Get(parsed_time[f])
           month_dir == MonthDir(t)
           dir == TargetDir(File(f).name, t)
       IN  \/ /\ pc' = [pc EXCEPT ![f] = "err"]
              /\ errAt' = [errAt EXCEPT ![f] = "mkdir"]
              /\ \E made \in {{}, {YearDir(t)}, {YearDir(t), month_dir}} :
                    dirs' = dirs \cup made
              /\ UNCHANGED target_dir
           \/ /\ pc' = [pc EXCEPT ![f] = "lock"]
              /\ dirs' = dirs \cup {YearDir(t), month_dir, dir}
              /\ target_dir' = [target_dir EXCEPT ![f] = Some(dir)]
              /\ UNCHANGED errAt
    /\ UNCHANGED <<file, parsed_time, source, output_path, counter>>
    /\ UNCHANGED <<mainVars, buildVars, mutexOwner, reserved, disk>>

\* Lock as it would be without mutual exclusion: the set is entered
\* whoever holds it.
LockWithoutExclusion(f) ==
    /\ pc[f] = "lock"
    /\ mutexOwner' = f
    /\ output_path' =
          [output_path EXCEPT
             ![f] = Some(Join(Get(target_dir[f]), File(f).name))]
    /\ pc' = [pc EXCEPT ![f] = "check"]
    /\ UNCHANGED <<file, parsed_time, source, target_dir, counter, errAt>>
    /\ UNCHANGED <<mainVars, buildVars, reserved, dirs, disk>>

\* get_output_path: MUTEX...lock().unwrap(), and the first output_path.
Lock(f) ==
    /\ pc[f] = "lock"
    /\ mutexOwner = 0
    /\ mutexOwner' = f
    /\ output_path' =
          [output_path EXCEPT
             ![f] = Some(Join(Get(target_dir[f]), File(f).name))]
    /\ pc' = [pc EXCEPT ![f] = "check"]
    /\ UNCHANGED <<file, parsed_time, source, target_dir, counter, errAt>>
    /\ UNCHANGED <<mainVars, buildVars, reserved, dirs, disk>>

\* The condition as it would be without the look into the set.
IsFreeOnDisk(path) == ~Exists(path)

\* The condition of get_output_path and of find_unique_filename.
IsFree(path) == path \notin reserved /\ ~Exists(path)

\* Check as it would be if find_unique_filename began with the counter 2.
CheckStartingAtTwo(f) ==
    /\ pc[f] = "check"
    /\ IF IsFree(Get(output_path[f]))
       THEN /\ pc' = [pc EXCEPT ![f] = "insert"]
            /\ UNCHANGED counter
       ELSE /\ counter' = [counter EXCEPT ![f] = 2]
            /\ pc' = [pc EXCEPT ![f] = "find"]
    /\ UNCHANGED <<file, parsed_time, source, target_dir, output_path, errAt>>
    /\ UNCHANGED <<mainVars, buildVars, placeVars>>

\* The test of the loop of get_output_path: a free output_path goes on to
\* the insert; otherwise find_unique_filename is entered.
Check(f) ==
    /\ pc[f] = "check"
    /\ IF IsFree(Get(output_path[f]))
       THEN /\ pc' = [pc EXCEPT ![f] = "insert"]
            /\ UNCHANGED counter
       ELSE /\ counter' = [counter EXCEPT ![f] = 1]
            /\ pc' = [pc EXCEPT ![f] = "find"]
    /\ UNCHANGED <<file, parsed_time, source, target_dir, output_path, errAt>>
    /\ UNCHANGED <<mainVars, buildVars, placeVars>>

\* Find as it would be if the counter were not incremented: the same
\* occupied candidate is tried again and again.
FindWithoutIncrement(f) ==
    /\ pc[f] = "find"
    /\ LET candidate ==
              Join(Get(target_dir[f]), NewFileName(File(f).name, counter[f]))
       IN  IF IsFree(candidate)
           THEN /\ output_path' = [output_path EXCEPT ![f] = Some(candidate)]
                /\ pc' = [pc EXCEPT ![f] = "check"]
                /\ UNCHANGED counter
           ELSE UNCHANGED <<counter, output_path, pc>>
    /\ UNCHANGED <<file, parsed_time, source, target_dir, errAt>>
    /\ UNCHANGED <<mainVars, buildVars, placeVars>>

\* Find as it would be if the lock were given up between two candidates.
FindReleasing(f) ==
    /\ pc[f] = "find"
    /\ LET candidate ==
              Join(Get(target_dir[f]), NewFileName(File(f).name, counter[f]))
       IN  IF IsFree(candidate)
           THEN /\ output_path' = [output_path EXCEPT ![f] = Some(candidate)]
                /\ pc' = [pc EXCEPT ![f] = "check"]
                /\ UNCHANGED <<counter, mutexOwner>>
           ELSE /\ counter' = [counter EXCEPT ![f] = counter[f] + 1]
                /\ mutexOwner' = 0
                /\ UNCHANGED <<output_path, pc>>
    /\ UNCHANGED <<file, parsed_time, source, target_dir, errAt>>
    /\ UNCHANGED <<mainVars, buildVars, reserved, dirs, disk>>

\* One turn of the loop of find_unique_filename: the candidate of the
\* current counter is returned when free, else the counter goes up.
Find(f) ==
    /\ pc[f] = "find"
    /\ LET candidate ==
              Join(Get(target_dir[f]), NewFileName(File(f).name, counter[f]))
       IN  IF IsFree(candidate)
           THEN /\ output_path' = [output_path EXCEPT ![f] = Some(candidate)]
                /\ pc' = [pc EXCEPT ![f] = "check"]
                /\ UNCHANGED counter
           ELSE /\ counter' = [counter EXCEPT ![f] = counter[f] + 1]
                /\ UNCHANGED <<output_path, pc>>
    /\ UNCHANGED <<file, parsed_time, source, target_dir, errAt>>
    /\ UNCHANGED <<mainVars, buildVars, placeVars>>

\* Insert as it would be if the guard outlived get_output_path.
InsertKeepingLock(f) ==
    /\ pc[f] = "insert"
    /\ reserved' = reserved \cup {Get(output_path[f])}
    /\ pc' = [pc EXCEPT ![f] = "copy"]
    /\ UNCHANGED <<file, parsed_time, source, target_dir, output_path,
                   counter, errAt>>
    /\ UNCHANGED <<mainVars, buildVars, mutexOwner, dirs, disk>>

\* reserved_paths.insert(...), the break, and the return of
\* get_output_path, which drops the guard.
Insert(f) ==
    /\ pc[f] = "insert"
    /\ reserved' = reserved \cup {Get(output_path[f])}
    /\ mutexOwner' = 0
    /\ pc' = [pc EXCEPT ![f] = "copy"]
    /\ UNCHANGED <<file, parsed_time, source, target_dir, output_path,
                   counter, errAt>>
    /\ UNCHANGED <<mainVars, buildVars, dirs, disk>>

\* fs::copy writes the destination: it creates or truncates it.
WriteFile(path, f) ==
    [p \in DOMAIN disk \cup {path} |->
        IF p = path
        THEN DiskFile(f, (IF p \in DOMAIN disk THEN disk[p].writes ELSE 0) + 1,
                      None)
        ELSE disk[p]]

\* Copy as it would be if a failed copy gave its reservation back.
CopyWithRollback(f) ==
    /\ pc[f] = "copy"
    /\ \/ /\ File(f).open
          /\ disk' = WriteFile(Get(output_path[f]), f)
          /\ pc' = [pc EXCEPT ![f] = "settimes"]
          /\ UNCHANGED <<errAt, reserved>>
       \/ /\ disk' \in {disk, WriteFile(Get(output_path[f]), f)}
          /\ pc' = [pc EXCEPT ![f] = "err"]
          /\ errAt' = [errAt EXCEPT ![f] = "copy"]
          /\ reserved' = reserved \ {Get(output_path[f])}
    /\ UNCHANGED <<file, parsed_time, source, target_dir, output_path, counter>>
    /\ UNCHANGED <<mainVars, buildVars, mutexOwner, dirs>>

\* Copy as it would be if a failed copy ended the process.
CopyAborting(f) ==
    /\ pc[f] = "copy"
    /\ \/ /\ File(f).open
          /\ disk' = WriteFile(Get(output_path[f]), f)
          /\ pc' = [pc EXCEPT ![f] = "settimes"]
          /\ UNCHANGED <<errAt, mainPc>>
       \/ /\ disk' \in {disk, WriteFile(Get(output_path[f]), f)}
          /\ pc' = [pc EXCEPT ![f] = "err"]
          /\ errAt' = [errAt EXCEPT ![f] = "copy"]
          /\ mainPc' = "exit1"
    /\ UNCHANGED <<file, parsed_time, source, target_dir, output_path, counter>>
    /\ UNCHANGED <<inputExists, outputExists, buildVars, mutexOwner, reserved,
                   dirs>>

\* fs::copy(photo_path, &output_path)?: it succeeds only for a source that
\* can be opened, and a failed copy may or may not have created the
\* destination.
Copy(f) ==
    /\ pc[f] = "copy"
    /\ \/ /\ File(f).open
          /\ disk' = WriteFile(Get(output_path[f]), f)
          /\ pc' = [pc EXCEPT ![f] = "settimes"]
          /\ UNCHANGED errAt
       \/ /\ disk' \in {disk, WriteFile(Get(output_path[f]), f)}
          /\ pc' = [pc EXCEPT ![f] = "err"]
          /\ errAt' = [errAt EXCEPT ![f] = "copy"]
    /\ UNCHANGED <<file, parsed_time, source, target_dir, output_path, counter>>
    /\ UNCHANGED <<mainVars, buildVars, mutexOwner, reserved, dirs>>

\* set_file_times(&output_path, file_time, file_time)? with the resolved
\* instant in whole seconds.
SetTimes(f) ==
    /\ pc[f] = "settimes"
    /\ \/ /\ disk' = [disk EXCEPT
                        ![Get(output_path[f])].mtime = parsed_time[f]]
          /\ pc' = [pc EXCEPT ![f] = "ok"]
          /\ UNCHANGED errAt
       \/ /\ pc' = [pc EXCEPT ![f] = "err"]
          /\ errAt' = [errAt EXCEPT ![f] = "settimes"]
          /\ UNCHANGED disk
    /\ UNCHANGED <<file, parsed_time, source, target_dir, output_path, counter>>
    /\ UNCHANGED <<mainVars, buildVars, mutexOwner, reserved, dirs>>

\* for_each of process_directory_parallel returns once every task has, and
\* main returns.
PlaceDone ==
    /\ mainPc = "place"
    /\ \A f \in DOMAIN pc : pc[f] \in {"ok", "err"}
    /\ mainPc' = "done"
    /\ UNCHANGED <<inputExists, outputExists, buildVars, taskVars, placeVars>>

(***************************************************************************)
(* Specifications.                                                         *)
(***************************************************************************)
NextOf(kinds, files, numSidecars, numFiles) ==
    \/ Startup(kinds, numSidecars)
    \/ \E s \in DOMAIN scPc : SidecarParse(s)
    \/ \E s \in DOMAIN scPc : SidecarLock(s)
    \/ \E s \in DOMAIN scPc : SidecarInsert(s)
    \/ BuildDone(files, numFiles)
    \/ \E f \in DOMAIN pc : Dispatch(f)
    \/ \E f \in DOMAIN pc : ReadExif(f)
    \/ \E f \in DOMAIN pc : ReadFsTime(f)
    \/ \E f \in DOMAIN pc : Organize(f)
    \/ \E f \in DOMAIN pc : Lock(f)
    \/ \E f \in DOMAIN pc : Check(f)
    \/ \E f \in DOMAIN pc : Find(f)
    \/ \E f \in DOMAIN pc : Insert(f)
    \/ \E f \in DOMAIN pc : Copy(f)
    \/ \E f \in DOMAIN pc : SetTimes(f)
    \/ PlaceDone

NextWith(kinds, files) == NextOf(kinds, files, NumSidecars, NumFiles)

\* Every tag and filesystem answer, with and without an index entry.
Init == InitWith({{}})

Next == NextWith(ResolveSidecars, ResolveFiles)

Spec == Init /\ [][Next]_vars

\* Colliding names in an output tree that may already hold some of them.
InitPlace == InitWith(SUBSET PreExisting)

NextPlace == NextWith(PlaceSidecars, PlaceFiles)

SpecPlace == InitPlace /\ [][NextPlace]_vars

\* Every sidecar shape.
NextBuild == NextWith(BuildSidecars, BuildFiles)

SpecBuild == Init /\ [][NextBuild]_vars

\* The threads of the pool and main keep running: as long as some step of
\* the program can be taken, one is.
FairBuild == SpecBuild /\ WF_vars(NextBuild)

\* Search: files named A.jpg into a directory that holds A.jpg and A_1.jpg,
\* so that every search takes several turns, with the threads of the pool
\* and main running on.
InitSearch == InitWith({PreExisting})

NextSearch == NextWith(SearchSidecars, SearchFiles)

FairSearch == InitSearch /\ [][NextSearch]_vars /\ WF_vars(NextSearch)

\* Files of one name into one empty directory.
NextSameName ==
    NextOf(SearchSidecars, SameNameFiles, NumSidecars, NumSameName)

SpecSameName == Init /\ [][NextSameName]_vars

\* Names of every extension shape.
NextBucket == NextWith(PlaceSidecars, BucketFiles)

SpecBucket == Init /\ [][NextBucket]_vars

\* Files whose tasks fail at every step that can fail.
NextErrors == NextWith(ResolveSidecars, ErrorFiles)

FairErrors == Init /\ [][NextErrors]_vars /\ WF_vars(NextErrors)

(***************************************************************************)
(* Properties.                                                             *)
(***************************************************************************)
\* Task f has returned from get_output_path: output_path[f] is its claim.
Claimed(f) ==
    \/ pc[f] \in {"copy", "settimes", "ok"}
    \/ pc[f] = "err" /\ errAt[f] \in {"copy", "settimes"}

\* The directory and the file name of a path.
DirOf(path) == SubSeq(path, 1, Len(path) - 1)

NameOf(path) == path[Len(path)]

A_2_jpg == <<"A", "_", "2", ".", "j", "p", "g">>

\* C1: no destination path is claimed by two tasks - the paths
\* get_output_path returned to distinct tasks are pairwise different - and
\* no destination is written by two copies.
C1_NoPathClaimedTwice ==
    /\ \A f, g \in DOMAIN pc :
          f # g /\ Claimed(f) /\ Claimed(g) => output_path[f] # output_path[g]
    /\ \A p \in DOMAIN disk : disk[p].writes <= 1

\* A file named A_1.jpg and a file named A.jpg were both placed in a
\* directory that already held A.jpg: the first under its own name, which
\* is the other's first suffixed candidate, the second as A_2.jpg.
C1_Witness ==
    \E f, g \in DOMAIN pc :
        /\ File(f).name = A_1_jpg /\ File(g).name = A_jpg
        /\ pc[f] = "ok" /\ pc[g] = "ok"
        /\ target_dir[f] = target_dir[g]
        /\ NameOf(Get(output_path[f])) = A_1_jpg
        /\ NameOf(Get(output_path[g])) = A_2_jpg

\* C2: the path get_output_path returns was, when it was inserted, neither
\* in the reservation set nor on disk; and a file of the output tree, there
\* before the run or copied during it, is never written by a later copy.
C2_OccupiedNeverReturned ==
    [][/\ \A f \in DOMAIN pc :
            pc[f] = "insert" /\ pc'[f] = "copy" =>
                /\ Get(output_path'[f]) \notin reserved
                /\ Get(output_path'[f]) \notin DOMAIN disk
       /\ \A p \in DOMAIN disk :
            /\ p \in DOMAIN disk'
            /\ disk'[p].writer = disk[p].writer
            /\ disk'[p].writes = disk[p].writes]_vars

\* A.jpg stood in the directory before the run and still does, unwritten,
\* after a file named A.jpg was copied there under another name.
C2_Witness ==
    \E f \in DOMAIN pc :
        /\ pc[f] = "ok"
        /\ File(f).name = A_jpg
        /\ Join(Get(target_dir[f]), A_jpg) \in DOMAIN disk
        /\ disk[Join(Get(target_dir[f]), A_jpg)].writer = 0
        /\ disk[Join(Get(target_dir[f]), A_jpg)].writes = 0
        /\ Get(output_path[f]) # Join(Get(target_dir[f]), A_jpg)
        /\ disk[Get(output_path[f])].writer = f

\* C3: a reservation is permanent - no step removes a path from the
\* reservation set, a failing copy or set_file_times included.
C3_ReservationPermanent == [][reserved \subseteq reserved']_vars

\* One task's copy failed and another's set_file_times failed; both paths
\* are still reserved.
C3_Witness ==
    \E f, g \in DOMAIN pc :
        /\ pc[f] = "err" /\ errAt[f] = "copy"
        /\ pc[g] = "err" /\ errAt[g] = "settimes"
        /\ Get(output_path[f]) \in reserved
        /\ Get(output_path[g]) \in reserved

\* <stem>_<n>.<ext>, or <stem>_<n> for a name without extension.
Suffixed(name, n) ==
    IF Extension(name) = None
    THEN FileStem(name) \o <<"_">> \o ToDecimal(n)
    ELSE FileStem(name) \o <<"_">> \o ToDecimal(n) \o <<".">>
            \o Get(Extension(name))

\* C4: the name a task claims is the base name when that is free at the
\* claim (unreserved and not on disk); otherwise it is <stem>_<n>.<ext>
\* (<stem>_<n> without extension) for the smallest n >= 1 that is free.
C4_SmallestFreeName ==
    [][\A f \in DOMAIN pc :
          pc[f] = "insert" /\ pc'[f] = "copy" =>
             LET dir == Get(target_dir[f])
                 free(name) == /\ Join(dir, name) \notin reserved
                               /\ Join(dir, name) \notin DOMAIN disk
                 claimed == Get(output_path'[f])
             IN  IF free(File(f).name)
                 THEN claimed = Join(dir, File(f).name)
                 ELSE \E n \in 1..(Cardinality(reserved)
                                     + Cardinality(DOMAIN disk) + 1) :
                         /\ claimed = Join(dir, Suffixed(File(f).name, n))
                         /\ free(Suffixed(File(f).name, n))
                         /\ \A m \in 1..(n - 1) :
                               ~free(Suffixed(File(f).name, m))]_vars

\* A.jpg stood in the directory, so one file named A.jpg was placed as
\* A_1.jpg and then, A_1.jpg being reserved, another as A_2.jpg.
C4_Witness ==
    \E f, g \in DOMAIN pc :
        /\ File(f).name = A_jpg /\ File(g).name = A_jpg
        /\ Claimed(f) /\ Claimed(g)
        /\ Join(Get(target_dir[f]), A_jpg) \in DOMAIN disk
        /\ disk[Join(Get(target_dir[f]), A_jpg)].writer = 0
        /\ NameOf(Get(output_path[f])) = A_1_jpg
        /\ NameOf(Get(output_path[g])) = A_2_jpg

\* Two files without extension were placed: as A and as A_1.
C4_WitnessNoExtension ==
    \E f, g \in DOMAIN pc :
        /\ File(f).name = A_bare /\ File(g).name = A_bare
        /\ Claimed(f) /\ Claimed(g)
        /\ NameOf(Get(output_path[f])) = A_bare
        /\ NameOf(Get(output_path[g])) = <<"A", "_", "1">>

\* The directory held no file before the run.
InitiallyEmpty(dir) ==
    \A p \in DOMAIN disk : DirOf(p) = dir => disk[p].writer # 0

\* C5: two files named A.jpg placed in the same, initially empty directory,
\* into which no other file is placed, get the names A.jpg and A_1.jpg in
\* either order; once both are copied both files are there, each written
\* once, by its own task.
C5_TwoFilesOneName ==
    \A f, g \in DOMAIN pc :
        /\ mainPc = "done"
        /\ f # g
        /\ File(f).name = A_jpg /\ File(g).name = A_jpg
        /\ Claimed(f) /\ Claimed(g)
        /\ target_dir[f] = target_dir[g]
        /\ InitiallyEmpty(Get(target_dir[f]))
        /\ \A h \in DOMAIN pc \ {f, g} : target_dir[h] # target_dir[f]
        => /\ {NameOf(Get(output_path[f])), NameOf(Get(output_path[g]))}
                = {A_jpg, A_1_jpg}
           /\ DirOf(Get(output_path[f])) = Get(target_dir[f])
           /\ DirOf(Get(output_path[g])) = Get(target_dir[f])
           /\ pc[f] = "ok" /\ pc[g] = "ok" =>
                 /\ disk[Get(output_path[f])].writer = f
                 /\ disk[Get(output_path[g])].writer = g
                 /\ disk[Get(output_path[f])].writes = 1
                 /\ disk[Get(output_path[g])].writes = 1

\* Both orders happen: the run ended with the later task's file as A.jpg
\* and the earlier task's as A_1.jpg, both copied into a directory that
\* holds nothing else.
C5_Witness ==
    \E f, g \in DOMAIN pc :
        /\ mainPc = "done"
        /\ f < g
        /\ File(f).name = A_jpg /\ File(g).name = A_jpg
        /\ pc[f] = "ok" /\ pc[g] = "ok"
        /\ DOMAIN disk = {Get(output_path[f]), Get(output_path[g])}
        /\ NameOf(Get(output_path[g])) = A_jpg
        /\ NameOf(Get(output_path[f])) = A_1_jpg
        /\ DirOf(Get(output_path[f])) = DirOf(Get(output_path[g]))

\* The instant of ExifGood read as UTC: 2022-07-20 10:00:00.
ExifGoodInstant == Some(1658311200)

\* The directory of July 2022 for .jpg files.
July2022Jpg == <<ToDecimal(2022), MonthName(7), <<"j", "p", "g">> >>

\* Task f is past the timestamp tiers: it went on to placement or ended.
Resolved(f) == pc[f] \notin {"idle", "exif", "fstime"}

HasIndexEntry(f) == File(f).name \in DOMAIN metadata_map

\* C6: sidecar always wins - a file whose base name is a key of the index is
\* placed with the index value, with or without a good tag, and neither its
\* tag nor its filesystem times are read.
C6_SidecarWins ==
    \A f \in DOMAIN pc :
        HasIndexEntry(f) /\ pc[f] # "idle" =>
            /\ parsed_time[f] = Some(metadata_map[File(f).name])
            /\ source[f] = "sidecar"
            /\ pc[f] \notin {"exif", "fstime"}
            /\ errAt[f] \notin {"open", "metadata"}
            /\ pc[f] = "ok" =>
                  disk[Get(output_path[f])].mtime
                      = Some(metadata_map[File(f).name])

\* A file with a good tag of 2022 and a file that cannot even be opened
\* both have a sidecar of 2017: the first was placed with its instant, the
\* second got as far as the copy with it.
C6_Witness ==
    \E f, g \in DOMAIN pc :
        /\ File(f) = Tagged(A_jpg)
        /\ ~File(g).open
        /\ pc[f] = "ok"
        /\ pc[g] = "err" /\ errAt[g] = "copy"
        /\ disk[Get(output_path[f])].mtime = Some(1500000000)
        /\ parsed_time[g] = Some(1500000000)
        /\ Get(target_dir[f])[1] = ToDecimal(2017)

\* C7: a file without index entry whose DateTimeOriginal parses is placed
\* with that date-time read as UTC; its filesystem times are not read.
C7_TagWhenNoSidecar ==
    \A f \in DOMAIN pc :
        /\ ~HasIndexEntry(f)
        /\ File(f).open /\ File(f).container
        /\ File(f).field = Some(ExifGood)
        /\ Resolved(f)
        => /\ parsed_time[f] = ExifGoodInstant
           /\ source[f] = "exif"
           /\ errAt[f] \notin {"open", "metadata"}
           /\ target_dir[f] # None => Get(target_dir[f]) = July2022Jpg
           /\ pc[f] = "ok" =>
                 disk[Get(output_path[f])].mtime = ExifGoodInstant

\* The index holds only B.jpg; a file A.jpg with a good tag was placed in
\* 2022/July/jpg with the instant of its tag.
C7_Witness ==
    \E f \in DOMAIN pc :
        /\ DOMAIN metadata_map = {B_jpg}
        /\ File(f) = Tagged(A_jpg)
        /\ pc[f] = "ok"
        /\ Get(output_path[f]) = Join(July2022Jpg, A_jpg)
        /\ disk[Get(output_path[f])].mtime = ExifGoodInstant

\* The file has no usable tag, in one of the three ways.
NoUsableTag(f) ==
    \/ ~File(f).container
    \/ File(f).field = None
    \/ File(f).field = Some(ExifBad)

\* C8: for a file without index entry, a missing EXIF container, a missing
\* DateTimeOriginal field and a field that does not parse are no errors:
\* the file goes on to the filesystem tier and is placed with its creation
\* time, or with its modification time when there is no creation time.
C8_TagFailureFallsThrough ==
    \A f \in DOMAIN pc :
        ~HasIndexEntry(f) /\ File(f).open /\ NoUsableTag(f) =>
            /\ pc[f] = "err" => errAt[f] \in {"metadata", "mkdir", "copy",
                                              "settimes"}
            /\ Resolved(f) /\ errAt[f] # "metadata" =>
                  /\ File(f).created # None =>
                        parsed_time[f] = File(f).created
                  /\ File(f).created = None =>
                        parsed_time[f] = File(f).modified
                  /\ source[f] \in {"created", "modified"}
            /\ pc[f] = "ok" =>
                  disk[Get(output_path[f])].mtime = parsed_time[f]

\* A file whose tag does not parse and that has no creation time was placed
\* with its modification time, and a file without EXIF container with its
\* creation time.
C8_Witness ==
    \E f, g \in DOMAIN pc :
        /\ File(f).field = Some(ExifBad) /\ File(f).created = None
        /\ ~File(g).container /\ File(g).created # None
        /\ pc[f] = "ok" /\ pc[g] = "ok"
        /\ disk[Get(output_path[f])].mtime = Some(ModifiedTime)
        /\ disk[Get(output_path[g])].mtime = Some(CreatedTime)
        /\ ~HasIndexEntry(f)

\* C9 as claimed: every file that is past the timestamp tiers has a
\* timestamp.
C9_AlwaysATimestamp ==
    \A f \in DOMAIN pc : Resolved(f) => parsed_time[f] # None

\* The file has an index entry, or it can be opened and has a good tag or
\* filesystem times that can be read.
Resolvable(f) ==
    \/ HasIndexEntry(f)
    \/ /\ File(f).open
       /\ \/ File(f).container /\ File(f).field = Some(ExifGood)
          \/ File(f).meta /\ (File(f).created # None \/ File(f).modified # None)

\* C9 amended: a file past the timestamp tiers has a timestamp, from
\* exactly one tier, if and only if it has an index entry or can be opened
\* and has a good tag or readable filesystem times; otherwise it has ended
\* in an error of File::open or of the filesystem metadata.
C9_TimestampIffReadable ==
    \A f \in DOMAIN pc :
        Resolved(f) =>
            /\ Resolvable(f) <=> parsed_time[f] # None
            /\ parsed_time[f] # None <=> source[f] # "none"
            /\ parsed_time[f] = None <=>
                  pc[f] = "err" /\ errAt[f] \in {"open", "metadata"}
            /\ errAt[f] = "open" => ~File(f).open /\ ~HasIndexEntry(f)

\* A file that cannot be opened ended without timestamp although the
\* filesystem knows its times, and a file without usable tag got its
\* modification time.
C9_Witness ==
    \E f, g \in DOMAIN pc :
        /\ ~File(f).open /\ File(f).meta /\ File(f).created # None
        /\ pc[f] = "err" /\ errAt[f] = "open" /\ parsed_time[f] = None
        /\ NoUsableTag(g) /\ source[g] = "modified" /\ pc[g] = "ok"

\* C10: no placement task exists before every sidecar task has finished,
\* and from then on the index is never modified.
C10_Barrier ==
    /\ [](DOMAIN pc # {} =>
             /\ \A s \in DOMAIN scPc : scPc[s] = "done"
             /\ mapLock = 0)
    /\ [][DOMAIN pc # {} => metadata_map' = metadata_map]_vars

\* Two sidecars were inserted, and a placement task has looked up the index
\* and reserved a path.
C10_Witness ==
    /\ DOMAIN metadata_map = {A_jpg, B_jpg}
    /\ \E f \in DOMAIN pc : source[f] = "sidecar" /\ pc[f] = "copy"
    /\ \E g \in DOMAIN pc : pc[g] = "idle"

\* The sidecar file of task s is malformed in one of the five ways.
Malformed(s) ==
    LET sc == Sidecars[sidecar[s]]
    IN  \/ ~sc.open \/ ~sc.read
        \/ ~sc.json
        \/ sc.title = None
        \/ sc.timestamp = None
        \/ sc.timestamp = Some(NotANumber)

\* Some walked sidecar is well-formed and names this file.
HasGoodSidecar(name) ==
    \E s \in DOMAIN sidecar :
        ~Malformed(s) /\ Sidecars[sidecar[s]].title = Some(name)

\* C11: a malformed sidecar (unreadable, no JSON, no title, no timestamp,
\* a timestamp that is no integer) ends its task without touching the index
\* or main; the build still completes, with an entry for every title of a
\* well-formed sidecar and for no other; and a file without well-formed
\* sidecar is never placed from the index but goes through the tag and
\* filesystem tiers.
C11_MalformedSkipped ==
    /\ [][\A s \in DOMAIN scPc :
            Malformed(s) /\ scPc'[s] # scPc[s] =>
                /\ scPc[s] = "idle" /\ scPc'[s] = "done"
                /\ metadata_map' = metadata_map
                /\ mainPc' = mainPc]_vars
    /\ [](mainPc \in {"place", "done"} =>
            \A i \in DOMAIN Sidecars :
                Sidecars[i].title # None =>
                    (Get(Sidecars[i].title) \in DOMAIN metadata_map
                        <=> HasGoodSidecar(Get(Sidecars[i].title))))
    /\ [](\A f \in DOMAIN pc :
            ~HasGoodSidecar(File(f).name) /\ pc[f] # "idle" =>
                /\ File(f).name \notin DOMAIN metadata_map
                /\ source[f] \in {"none", "exif", "created", "modified"}
                /\ pc[f] \notin {"exif", "fstime"} /\ errAt[f] # "open" =>
                      source[f] # "none" \/ errAt[f] = "metadata")
    /\ (mainPc = "build" ~> mainPc = "place")

\* The sidecar of A.jpg had a timestamp that is no integer and the other
\* sidecar was well-formed: the index holds only the other's title, and
\* A.jpg was placed with its creation time.
C11_Witness ==
    /\ mainPc = "done"
    /\ \E s, t \in DOMAIN sidecar :
          /\ Sidecars[sidecar[s]].title = Some(A_jpg)
          /\ Sidecars[sidecar[s]].timestamp = Some(NotANumber)
          /\ Sidecars[sidecar[t]] = WellFormed(B_jpg, Stamp2022)
    /\ DOMAIN metadata_map = {B_jpg}
    /\ \E f \in DOMAIN pc :
          /\ File(f).name = A_jpg
          /\ pc[f] = "ok" /\ source[f] = "created"
          /\ disk[Get(output_path[f])].mtime = Some(CreatedTime)

\* Task f has ended, in success or in an error.
Ended(f) == pc[f] \in {"ok", "err"}

\* C12: an error of one task - File::open, fs::metadata, create_dir_all,
\* fs::copy, set_file_times - ends that task alone: the step changes no
\* other task and not main, the failed task holds no lock, the process never
\* exits with status 1 once the walks have begun, and every task of the walk
\* runs to its own success or error, after which main returns.
C12_ErrorsContained ==
    /\ [][\A f \in DOMAIN pc :
            pc[f] # "err" /\ pc'[f] = "err" =>
                /\ errAt'[f] \in {"open", "metadata", "mkdir", "copy",
                                   "settimes"}
                /\ \A g \in DOMAIN pc \ {f} :
                      /\ pc'[g] = pc[g] /\ errAt'[g] = errAt[g]
                      /\ parsed_time'[g] = parsed_time[g]
                      /\ output_path'[g] = output_path[g]
                /\ mainPc' = mainPc
                /\ mutexOwner' = mutexOwner
                /\ reserved' = reserved]_vars
    /\ [](\A f \in DOMAIN pc : pc[f] = "err" => mutexOwner # f)
    /\ [][mainPc # "start" => mainPc' # "exit1"]_vars
    /\ [](mainPc = "done" => \A f \in DOMAIN pc : Ended(f))
    /\ \A f \in 1..NumFiles :
          (f \in DOMAIN pc /\ pc[f] = "err")
              ~> (mainPc = "done" /\ \A g \in DOMAIN pc : Ended(g))

\* The run ended normally; one task had failed at File::open and the
\* other placed its file.
C12_Witness ==
    /\ mainPc = "done"
    /\ \E f, g \in DOMAIN pc :
          /\ pc[f] = "err" /\ errAt[f] = "open"
          /\ pc[g] = "ok"
          /\ disk[Get(output_path[g])].writer = g

\* Every step that can fail did, in some run that ended normally.
C12_WitnessMkdirCopy ==
    /\ mainPc = "done"
    /\ \E f, g \in DOMAIN pc :
          /\ pc[f] = "err" /\ errAt[f] = "mkdir"
          /\ pc[g] = "err" /\ errAt[g] = "copy"

C12_WitnessMetadataSetTimes ==
    /\ mainPc = "done"
    /\ \E f, g \in DOMAIN pc :
          /\ pc[f] = "err" /\ errAt[f] = "metadata"
          /\ pc[g] = "err" /\ errAt[g] = "settimes"

\* The year and month directories the dates of the inputs call for.
ExpectedMonthDir(t) ==
    CASE t = 1500000000 ->
            << <<"2", "0", "1", "7">>, <<"J", "u", "l", "y">> >>
      [] t = 1658311200 \/ t = CreatedTime ->
            << <<"2", "0", "2", "2">>, <<"J", "u", "l", "y">> >>
      [] t = ModifiedTime ->
            << <<"2", "0", "2", "1">>,
               <<"D", "e", "c", "e", "m", "b", "e", "r">> >>

\* The bucket a name calls for: its extension in lower case, no_ext for a
\* name that has none.
ExpectedBucket(name) ==
    CASE name \in {A_jpg, A_JPG} -> <<"j", "p", "g">>
      [] name \in {A_bare, A_dot} -> <<"n", "o", "_", "e", "x", "t">>

\* No other task works on a file of the same name.
NoCollision(f) ==
    \A g \in DOMAIN pc \ {f} : File(g).name # File(f).name

\* C13: the destination directory of a file is
\* <root>/<year>/<English month name>/<bucket>, the bucket being the
\* lower-cased extension, and no_ext exactly for a file without extension,
\* whatever the interleaving and the reservations; and a file whose name
\* collides with no other is placed under its own name.
C13_BucketByExtension ==
    \A f \in DOMAIN pc :
        /\ target_dir[f] # None =>
              Get(target_dir[f])
                  = ExpectedMonthDir(Get(parsed_time[f]))
                       \o <<ExpectedBucket(File(f).name)>>
        /\ Claimed(f) /\ NoCollision(f) =>
              Get(output_path[f])
                  = ExpectedMonthDir(Get(parsed_time[f]))
                       \o <<ExpectedBucket(File(f).name), File(f).name>>

\* The same for the names that do not end in a dot; a name that does has
\* the empty extension, and its directory is the month directory itself.
C13_BucketUnlessTrailingDot ==
    \A f \in DOMAIN pc :
        /\ target_dir[f] # None =>
              Get(target_dir[f])
                  = IF File(f).name = A_dot
                    THEN ExpectedMonthDir(Get(parsed_time[f]))
                    ELSE ExpectedMonthDir(Get(parsed_time[f]))
                            \o <<ExpectedBucket(File(f).name)>>
        /\ Claimed(f) /\ NoCollision(f) =>
              Get(output_path[f]) = Get(target_dir[f]) \o <<File(f).name>>

\* A file named "A." with a tag of July 2022 was placed, alone, in the
\* directory 2022/July itself; and A.JPG landed in 2022/July/jpg.
C13_Witness ==
    \E f, g \in DOMAIN pc :
        /\ File(f).name = A_dot /\ pc[f] = "ok"
        /\ Get(output_path[f])
              = << <<"2", "0", "2", "2">>, <<"J", "u", "l", "y">>, A_dot >>
        /\ File(g).name = A_JPG /\ pc[g] = "ok"
        /\ Get(output_path[g])
              = << <<"2", "0", "2", "2">>, <<"J", "u", "l", "y">>,
                   <<"j", "p", "g">>, A_JPG >>

\* A.jpg and A.JPG share the directory 2022/July/jpg and both keep their
\* names; a file without creation time went to 2021/December.
C13_WitnessSameBucket ==
    \E f, g \in DOMAIN pc :
        /\ File(f).name = A_jpg /\ File(g).name = A_JPG
        /\ pc[f] = "ok" /\ pc[g] = "ok"
        /\ target_dir[f] = target_dir[g]
        /\ NameOf(Get(output_path[f])) = A_jpg
        /\ NameOf(Get(output_path[g])) = A_JPG

C13_WitnessDecember ==
    \E f \in DOMAIN pc :
        /\ pc[f] = "ok"
        /\ Get(output_path[f])
              = << <<"2", "0", "2", "1">>,
                   <<"D", "e", "c", "e", "m", "b", "e", "r">>,
                   <<"j", "p", "g">>, A_jpg >>

C13_WitnessNoExt ==
    \E f \in DOMAIN pc :
        /\ pc[f] = "ok"
        /\ Get(output_path[f])
              = << <<"2", "0", "2", "2">>, <<"J", "u", "l", "y">>,
                   <<"n", "o", "_", "e", "x", "t">>, A_bare >>

\* Task f is inside get_output_path, past the lock.
Searching(f) == pc[f] \in {"check", "find", "insert"}

\* C14 as claimed: the lock is released between two candidates - a task
\* that is inside find_unique_filename, between one candidate and the next,
\* does not hold it.
C14_ReleasedBetweenCandidates ==
    \A f \in DOMAIN pc : pc[f] = "find" => mutexOwner # f

\* C14 amended: the lock is held across the whole search of a task, from
\* the first test to the insert, every turn of find_unique_filename
\* included; meanwhile no other task enters its search and no other task's
\* step changes the reservation set: the searches are serialized.
C14_HeldAcrossSearch ==
    /\ [](\A f \in DOMAIN pc : Searching(f) <=> mutexOwner = f)
    /\ [][\A f \in DOMAIN pc :
            Searching(f) =>
                /\ \A g \in DOMAIN pc \ {f} :
                      ~Searching(g) /\ ~Searching(g)'
                /\ reserved' # reserved => pc[f] = "insert" /\ pc'[f] = "copy"
                /\ mutexOwner' # f => pc[f] = "insert"]_vars

\* A task is at its second suffixed candidate, still holding the lock,
\* while the other waits for the lock.
C14_Witness ==
    \E f, g \in DOMAIN pc :
        /\ pc[f] = "find" /\ counter[f] = 2
        /\ mutexOwner = f
        /\ pc[g] = "lock"

\* How far a task has come.  The two positions of the collision search
\* share a rank: the search goes back and forth between them.
Rank(p) ==
    CASE p = "idle" -> 0
      [] p = "exif" -> 1
      [] p = "fstime" -> 2
      [] p = "organize" -> 3
      [] p = "lock" -> 4
      [] p \in {"check", "find"} -> 5
      [] p = "insert" -> 6
      [] p = "copy" -> 7
      [] p = "settimes" -> 8
      [] p \in {"ok", "err"} -> 9

\* C15: nothing is attempted twice for a file.  A task never goes back:
\* each of its steps other than the turns of the collision search takes it
\* strictly forward, so the index lookup, each tier, the directory step, the
\* insert, the copy and the timestamp-set happen at most once; its
\* timestamp and the tier it came from never change once set; only its one
\* insert adds to the reservation set, and adds one path; and a task that has
\* ended stays ended - in particular a failed placement of a file dated by
\* its sidecar or tag is not followed by the filesystem tier.
C15_NoRetry ==
    [][\A f \in DOMAIN pc :
          /\ Rank(pc'[f]) >= Rank(pc[f])
          /\ pc'[f] # pc[f] /\ pc[f] \notin {"check", "find"} =>
                Rank(pc'[f]) > Rank(pc[f])
          /\ pc[f] \in {"ok", "err"} =>
                pc'[f] = pc[f] /\ errAt'[f] = errAt[f]
          /\ source[f] # "none" =>
                source'[f] = source[f] /\ parsed_time'[f] = parsed_time[f]
          /\ source[f] \in {"sidecar", "exif"} => pc'[f] # "fstime"
          /\ pc'[f] # pc[f] /\ pc[f] = "insert" =>
                /\ Cardinality(reserved') = Cardinality(reserved) + 1
                /\ reserved' = reserved \cup {Get(output_path[f])}
          /\ (\A g \in DOMAIN pc : pc[g] = "insert" => pc'[g] = pc[g]) =>
                reserved' = reserved
          /\ output_path[f] # output_path'[f] => Rank(pc[f]) \in {4, 5}
          /\ Rank(pc[f]) >= 7 =>
                /\ output_path'[f] = output_path[f]
                /\ \A p \in DOMAIN disk' :
                      disk'[p].writer = f => p = Get(output_path[f])
          /\ \A p \in DOMAIN disk' :
                (/\ disk'[p].writer = f
                 /\ p \in DOMAIN disk => disk'[p] # disk[p])
                    => pc[f] \in {"copy", "settimes"}]_vars

\* The run ended; the placement of one file dated by its tag failed at
\* the directory step and that of another at the timestamp-set: neither
\* was dated again, and one path is reserved.
C15_Witness ==
    /\ mainPc = "done"
    /\ \E f, g \in DOMAIN pc :
          /\ source[f] = "exif" /\ pc[f] = "err" /\ errAt[f] = "mkdir"
          /\ source[g] = "exif" /\ pc[g] = "err" /\ errAt[g] = "settimes"
          /\ parsed_time[f] = ExifGoodInstant
          /\ reserved = {Get(output_path[g])}
          /\ disk[Get(output_path[g])].writes = 1

\* The same for a file dated by its sidecar whose copy failed.
C15_WitnessSidecar ==
    /\ mainPc = "done"
    /\ \E f \in DOMAIN pc :
          /\ source[f] = "sidecar" /\ pc[f] = "err" /\ errAt[f] = "copy"
          /\ parsed_time[f] = Some(1500000000)
          /\ Get(output_path[f]) \in reserved

\* C16: the order of one placement.  Directories first: a task at or past
\* the lock has its target directory, which exists, and a task whose
\* create_dir_all failed has neither directory nor path nor reservation.
\* Then the claim under the lock, then the release: a task at or past the
\* copy holds no lock and its path is reserved.  A file of the output tree
\* written during the run was written by the task that reserved its path,
\* after the reservation; and it carries a timestamp only if that task's
\* copy succeeded and its set_file_times was reached, with that task's
\* instant.
C16_PlacementOrder ==
    /\ [](\A f \in DOMAIN pc :
            /\ Rank(pc[f]) \in 4..8 \/ pc[f] = "ok" \/ Claimed(f) =>
                  /\ target_dir[f] # None
                  /\ Get(target_dir[f]) \in dirs
            /\ errAt[f] = "mkdir" =>
                  /\ target_dir[f] = None /\ output_path[f] = None
                  /\ \A p \in DOMAIN disk : disk[p].writer # f
            /\ Claimed(f) =>
                  /\ mutexOwner # f
                  /\ Get(output_path[f]) \in reserved
            /\ Rank(pc[f]) <= 6 => \A p \in DOMAIN disk : disk[p].writer # f)
    /\ [](reserved = {Get(output_path[f]) : f \in {g \in DOMAIN pc : Claimed(g)}})
    /\ [](\A p \in DOMAIN disk :
            /\ disk[p].writer # 0 =>
                  /\ Claimed(disk[p].writer)
                  /\ p = Get(output_path[disk[p].writer])
                  /\ p \in reserved
            /\ disk[p].mtime # None =>
                  /\ disk[p].writer # 0
                  /\ pc[disk[p].writer] = "ok"
                  /\ disk[p].mtime = parsed_time[disk[p].writer])
    /\ [][\A f \in DOMAIN pc :
            /\ pc[f] = "organize" => pc'[f] \in {"organize", "lock", "err"}
            /\ pc[f] = "insert" => pc'[f] \in {"insert", "copy"}
            /\ pc[f] = "copy" => pc'[f] \in {"copy", "settimes", "err"}
            /\ pc[f] = "settimes" => pc'[f] \in {"settimes", "ok", "err"}
            /\ pc[f] # "settimes" /\ pc'[f] = "settimes" =>
                  /\ Get(output_path[f]) \in DOMAIN disk'
                  /\ disk'[Get(output_path[f])].writer = f
            /\ pc[f] \in {"copy", "settimes"} /\ pc'[f] # pc[f] =>
                  mutexOwner # f /\ mutexOwner' = mutexOwner]_vars

\* The copies of two tasks overlap: both have reserved their paths, A.jpg
\* and A_1.jpg of one directory, neither has copied yet and the lock is free.
C16_Witness ==
    \E f, g \in DOMAIN pc :
        /\ f # g
        /\ pc[f] = "copy" /\ pc[g] = "copy"
        /\ mutexOwner = 0
        /\ target_dir[f] = target_dir[g]
        /\ NameOf(Get(output_path[f])) = A_jpg
        /\ NameOf(Get(output_path[g])) = A_1_jpg
        /\ {Get(output_path[f]), Get(output_path[g])} \subseteq reserved
        /\ DOMAIN disk = {}

\* One task copies while another holds the lock, and a third case: a task
\* whose directories could not be created ended with nothing reserved.
C16_WitnessCopyBesideLock ==
    \E f, g \in DOMAIN pc :
        /\ pc[f] = "settimes" /\ pc[g] = "find" /\ mutexOwner = g

C16_WitnessMkdirFailure ==
    \E f \in DOMAIN pc :
        /\ mainPc = "done"
        /\ pc[f] = "err" /\ errAt[f] = "mkdir"
        /\ \A g \in DOMAIN pc : errAt[g] = "mkdir"
        /\ reserved = {}

\* The instant a timestamp string of the inputs stands for.
InstantOf(timestamp) ==
    CASE timestamp = Stamp2022 -> 1657886400
      [] timestamp = Stamp2017 -> 1500000000

\* C17: the inserts into the index are serialized and each is one whole
\* insert.  The index lock is held exactly by the one task that is at its
\* insert - not while parsing - and only well-formed sidecars come that
\* far; an insert sets the entry of its sidecar's title to its sidecar's
\* timestamp, overwriting an earlier one, and leaves every other entry as
\* it was; no other step changes the index.  After the build the keys are
\* exactly the titles of the well-formed sidecars, and each value is the
\* timestamp of one of the well-formed sidecars of that title.
C17_SerializedInserts ==
    /\ [](\A s \in DOMAIN scPc :
            /\ scPc[s] = "insert" <=> mapLock = s
            /\ scPc[s] \in {"lock", "insert"} =>
                  /\ ~Malformed(s)
                  /\ scLocal[s]
                        = Some(<<Get(Sidecars[sidecar[s]].title),
                                 InstantOf(Get(Sidecars[sidecar[s]].timestamp))>>))
    /\ [](mapLock = 0 \/ mapLock \in DOMAIN scPc)
    /\ [][/\ (\A s \in DOMAIN scPc : scPc[s] = "insert" => scPc'[s] = "insert")
                => metadata_map' = metadata_map
          /\ \A s \in DOMAIN scPc :
                scPc[s] = "insert" /\ scPc'[s] # "insert" =>
                    LET sc == Sidecars[sidecar[s]]
                    IN  /\ mapLock = s /\ mapLock' = 0
                        /\ scPc'[s] = "done"
                        /\ \A t \in DOMAIN scPc \ {s} : scPc'[t] = scPc[t]
                        /\ DOMAIN metadata_map'
                              = DOMAIN metadata_map \cup {Get(sc.title)}
                        /\ metadata_map'[Get(sc.title)]
                              = InstantOf(Get(sc.timestamp))
                        /\ \A k \in DOMAIN metadata_map \ {Get(sc.title)} :
                              metadata_map'[k] = metadata_map[k]]_vars
    /\ [](mainPc \in {"place", "done"} =>
            /\ DOMAIN metadata_map
                  = {Get(Sidecars[sidecar[s]].title) :
                        s \in {t \in DOMAIN sidecar : ~Malformed(t)}}
            /\ \A k \in DOMAIN metadata_map :
                  \E s \in DOMAIN sidecar :
                      /\ ~Malformed(s)
                      /\ Sidecars[sidecar[s]].title = Some(k)
                      /\ metadata_map[k]
                            = InstantOf(Get(Sidecars[sidecar[s]].timestamp)))

\* Two well-formed sidecars of A.jpg, walked in the order 2022, 2017: the
\* build ended with the one entry of A.jpg holding the instant of 2022,
\* the insert of the sidecar walked first having come last.
C17_Witness ==
    /\ mainPc = "place"
    /\ sidecar = <<7, 8>>
    /\ Sidecars[7] = WellFormed(A_jpg, Stamp2022)
    /\ Sidecars[8] = WellFormed(A_jpg, Stamp2017)
    /\ DOMAIN metadata_map = {A_jpg}
    /\ metadata_map[A_jpg] = 1657886400

\* The other order of the same two inserts: the entry holds 2017.
C17_WitnessOtherOrder ==
    /\ mainPc = "place"
    /\ sidecar = <<7, 8>>
    /\ DOMAIN metadata_map = {A_jpg}
    /\ metadata_map[A_jpg] = 1500000000

\* One task waits for the index lock while the other is at its insert.
C17_WitnessWaiting ==
    \E s, t \in DOMAIN scPc :
        scPc[s] = "insert" /\ scPc[t] = "lock" /\ mapLock = s

\* C18: every placement task finishes.  The search is bounded by the number
\* of occupied names: the counter never exceeds the number of reserved paths
\* and files on disk by more than one.  A task leaves its wait for the lock
\* only by getting it, and leaves the search only with a reserved path and
\* the lock released; and the run of the placement tasks always comes to
\* its end, where every task has ended and the lock is free - so no task
\* waits or searches forever.
C18_EveryTaskFinishes ==
    /\ [](\A f \in DOMAIN pc :
            counter[f] <= Cardinality(reserved) + Cardinality(DOMAIN disk) + 1)
    /\ [][\A f \in DOMAIN pc :
            /\ pc[f] = "lock" /\ pc'[f] # "lock" =>
                  mutexOwner = 0 /\ mutexOwner' = f /\ pc'[f] = "check"
            /\ Searching(f) /\ ~Searching(f)' =>
                  /\ pc'[f] = "copy"
                  /\ mutexOwner' = 0
                  /\ Get(output_path'[f]) \in reserved']_vars
    /\ [](mainPc = "done" => \A f \in DOMAIN pc : Ended(f))
    /\ (mainPc = "place") ~> (mainPc = "done" /\ mutexOwner = 0)

\* The same, task by task: a task that waits for the lock gets it, a task
\* that holds it comes out of its search, and every task ends.
C18_NoTaskWaitsForever ==
    \A f \in 1..NumFiles :
        /\ (f \in DOMAIN pc /\ pc[f] = "lock") ~> (mutexOwner = f)
        /\ (mutexOwner = f)
              ~> (/\ f \in DOMAIN pc
                  /\ pc[f] = "copy" /\ mutexOwner # f
                  /\ Get(output_path[f]) \in reserved)
        /\ (f \in DOMAIN pc) ~> (f \in DOMAIN pc /\ Ended(f))

\* The run ended after the longest search: A.jpg and A_1.jpg stood in the
\* directory, one file A.jpg was placed as A_2.jpg and the other, its
\* counter at 3, as A_3.jpg.
C18_Witness ==
    /\ mainPc = "done"
    /\ mutexOwner = 0
    /\ \E f, g \in DOMAIN pc :
          /\ pc[f] = "ok" /\ pc[g] = "ok"
          /\ counter[f] = 2 /\ counter[g] = 3
          /\ NameOf(Get(output_path[f])) = A_2_jpg
          /\ NameOf(Get(output_path[g]))
                = <<"A", "_", "3", ".", "j", "p", "g">>

\* The tasks that have returned from get_output_path.
ClaimedTasks == {f \in DOMAIN pc : Claimed(f)}

\* The k-th name of the series A.jpg, A_1.jpg, A_2.jpg, ...
SeriesName(k) == IF k = 0 THEN A_jpg ELSE Suffixed(A_jpg, k)

\* C19: the files of the walk are all named A.jpg and all belong in the
\* directory 2022/July/jpg, empty before the run.  Whenever k of their tasks
\* have claimed a name, the reserved names are exactly the first k of the
\* series A.jpg, A_1.jpg, A_2.jpg, ..., without gap, and the k tasks hold
\* one each - whatever the order of the claims and whichever copies or
\* timestamp-sets have failed.
C19_NoGap ==
    /\ reserved
          = {Join(July2022Jpg, SeriesName(k)) :
                k \in 0..(Cardinality(ClaimedTasks) - 1)}
    /\ {Get(output_path[f]) : f \in ClaimedTasks} = reserved
    /\ Cardinality(reserved) = Cardinality(ClaimedTasks)
    /\ \A p \in DOMAIN disk : p \in reserved

\* All tasks have claimed and the run ended: the reserved names are A.jpg,
\* A_1.jpg and A_2.jpg, given out against the order of the walk; the copy
\* of A_1.jpg failed and left no file.
C19_Witness ==
    /\ mainPc = "done"
    /\ Cardinality(ClaimedTasks) = NumSameName
    /\ {Join(July2022Jpg, A_jpg), Join(July2022Jpg, A_1_jpg),
         Join(July2022Jpg, A_2_jpg)} \subseteq reserved
    /\ \E f, g, h \in DOMAIN pc :
          /\ f < g /\ g < h
          /\ Get(output_path[h]) = Join(July2022Jpg, A_jpg)
          /\ Get(output_path[f]) = Join(July2022Jpg, A_1_jpg)
          /\ Get(output_path[g]) = Join(July2022Jpg, A_2_jpg)
          /\ pc[f] = "err" /\ errAt[f] = "copy"
          /\ Get(output_path[f]) \notin DOMAIN disk
          /\ pc[g] = "ok" /\ pc[h] = "ok"

====
